---------------------------- MODULE Spec2Model ----------------------------
(***************************************************************************)
(* A model of lib/hdprivatekey.js (HDPrivateKey): the constructor's        *)
(* dispatch, fromSeed, derive by number and by path, the serialized-form   *)
(* validator, the byte layout, toObject/toJson/toString and the process-   *)
(* wide derivation cache.                                                  *)
(*                                                                         *)
(* Buffers are sequences of bytes (0..255) with the source's field sizes   *)
(* and offsets.  The collaborators that live outside lib/hdprivatekey.js   *)
(* (hashes, the curve, Base58Check, the network registry, util/buffer,     *)
(* the key cache) are deterministic stand-ins over small domains: a        *)
(* scalar, a chain code or a hash occupies the last byte(s) of its buffer  *)
(* and the curve order N is a small number.  A child index is a number of  *)
(* IndexBits bits whose top bit is the hardened bit, since the checker's   *)
(* integers stop at 2^31 - 1.                                              *)
(***************************************************************************)
EXTENDS Integers, Sequences, FiniteSets, TLC

VARIABLES
    keys,     \* the HDPrivateKey instances built so far; an instance is its position
    cache,    \* HDKeyCache: the set of entries [xkey, number, hardened, derived]
    last      \* the last call made: its operation, its arguments and its outcome

vars == <<keys, cache, last>>

(***************************************************************************)
(* Bounds of the model                                                     *)
(***************************************************************************)
MaxKeys == 3        \* instances built in a run
IndexBits == 3      \* bits of a child index
MaxSteps == 2       \* steps of a derivation path
SeedVariants == 2   \* distinct contents of an entropy of a given length

(***************************************************************************)
(* Buffers                                                                 *)
(***************************************************************************)
Byte == 0..255

Zeros(n) == [i \in 1..n |-> 0]

\* buffer.slice(start, end): the bytes at the 0-based offsets start .. end-1
Slice(buf, start, end) ==
    IF end > Len(buf)
    THEN SubSeq(buf, start + 1, Len(buf))
    ELSE SubSeq(buf, start + 1, end)

RECURSIVE Concat(_)
Concat(bufs) ==
    IF bufs = <<>> THEN <<>> ELSE Head(bufs) \o Concat(Tail(bufs))

\* the positions of a buffer that hold a byte other than zero
NonZero(buf) == { i \in 1..Len(buf) : buf[i] # 0 }

\* the sum of weight(i) * buf[i] over the positions in S, the weight of a
\* position being ((i * k) % 251) + 1
RECURSIVE WeightedSum(_, _, _)
WeightedSum(buf, S, k) ==
    IF S = {} THEN 0
    ELSE LET i == CHOOSE j \in S : TRUE
         IN  (((i * k) % 251) + 1) * buf[i] + WeightedSum(buf, S \ {i}, k)

SumBytes(buf) == WeightedSum(buf, NonZero(buf), 0)

\* A position-weighted digest of a buffer, the stand-in for every hash.
Mix(buf, seed) ==
    (seed * 31 + Len(buf) + WeightedSum(buf, NonZero(buf), 7)) % 65521

\* util/buffer: integerAsBuffer, 4 bytes big-endian of a 32-bit number
\* (NaN, like any non-number, gives four zero bytes under >> and &).
IntegerAsBuffer(x) ==
    << (x \div 16777216) % 256, (x \div 65536) % 256, (x \div 256) % 256, x % 256 >>

\* util/buffer: integerAsSingleByteBuffer, the low byte of the number
IntegerAsSingleByteBuffer(x) == << x % 256 >>

\* util/buffer: integerFromBuffer, the signed 32-bit value of 4 bytes
IntegerFromBuffer(buf) ==
    (IF buf[1] >= 128 THEN buf[1] - 256 ELSE buf[1]) * 16777216
        + buf[2] * 65536 + buf[3] * 256 + buf[4]

\* util/buffer: integerFromSingleByteBuffer
IntegerFromSingleByteBuffer(buf) == buf[1]

\* BN().fromBuffer(buf): the big-endian value of the buffer
RECURSIVE BigEndian(_, _, _)
BigEndian(buf, lo, hi) ==
    IF lo > hi THEN 0
    ELSE IF lo = hi THEN buf[lo]
    ELSE LET mid == (lo + hi) \div 2
             high == BigEndian(buf, lo, mid)
             low == BigEndian(buf, mid + 1, hi)
         IN  IF high = 0 THEN low ELSE high * 256 ^ (hi - mid) + low

BNFromBuffer(buf) == BigEndian(buf, 1, Len(buf))

\* bn.toBuffer({size: 32}) of a number below 2^16
BNToBuffer(n, size) == Zeros(size - 2) \o << (n \div 256) % 256, n % 256 >>

(***************************************************************************)
(* The byte layout (HDPrivateKey.*Size, *Start, *End)                      *)
(***************************************************************************)
VersionSize == 4
DepthSize == 1
ParentFingerPrintSize == 4
ChildIndexSize == 4
ChainCodeSize == 32
PrivateKeySize == 32
CheckSumSize == 4

DataLength == 78
SerializedByteSize == 82

VersionStart == 0
VersionEnd == VersionStart + VersionSize
DepthStart == VersionEnd
DepthEnd == DepthStart + DepthSize
ParentFingerPrintStart == DepthEnd
ParentFingerPrintEnd == ParentFingerPrintStart + ParentFingerPrintSize
ChildIndexStart == ParentFingerPrintEnd
ChildIndexEnd == ChildIndexStart + ChildIndexSize
ChainCodeStart == ChildIndexEnd
ChainCodeEnd == ChainCodeStart + ChainCodeSize
PrivateKeyStart == ChainCodeEnd + 1
PrivateKeyEnd == PrivateKeyStart + PrivateKeySize
ChecksumStart == PrivateKeyEnd
ChecksumEnd == ChecksumStart + CheckSumSize

\* HDPrivateKey.Hardened is 0x80000000: the top bit of the index
Hardened == 2 ^ (IndexBits - 1)

MINIMUM_ENTROPY_BITS == 128
MAXIMUM_ENTROPY_BITS == 512
\* BITS_TO_BYTES is 1/8: bits * BITS_TO_BYTES is bits \div 8
BitsToBytes(bits) == bits \div 8

(***************************************************************************)
(* Texts.  A text is known by what the parsers make of it: whether all its *)
(* characters are in the Base58 alphabet and then the bytes Base58 decodes *)
(* it to (raw), and whether JSON.parse accepts it and then the value it    *)
(* gives (json).                                                           *)
(***************************************************************************)
NoJson == [k |-> "none"]

B58Text(raw) == [t |-> "b58", raw |-> raw, json |-> NoJson]
JsonText(val) == [t |-> "json", raw |-> <<>>, json |-> val]
JunkText == [t |-> "junk", raw |-> <<>>, json |-> NoJson]
EmptyText == [t |-> "empty", raw |-> <<>>, json |-> NoJson]

\* encoding/base58: validCharacters (the empty string has no bad character)
ValidCharacters(text) == text.t \in {"b58", "empty"}

\* encoding/base58check: checksum, the first 4 bytes of the double hash
Base58CheckChecksum(payload) ==
    LET m == Mix(payload, 1)
    IN  << m % 256, (m \div 256) % 256, Len(payload) % 256, SumBytes(payload) % 256 >>

\* encoding/base58check: encode
Base58CheckEncode(payload) == B58Text(payload \o Base58CheckChecksum(payload))

\* encoding/base58check: decode, which throws on a short input or a checksum
\* that is not the checksum of the data before it
Base58CheckDecode(text) ==
    LET raw == text.raw
        n == Len(raw)
    IN  IF n < CheckSumSize
        THEN [ok |-> FALSE, data |-> <<>>]
        ELSE LET data == SubSeq(raw, 1, n - CheckSumSize)
                 csum == SubSeq(raw, n - CheckSumSize + 1, n)
             IN  IF csum = Base58CheckChecksum(data)
                 THEN [ok |-> TRUE, data |-> data]
                 ELSE [ok |-> FALSE, data |-> <<>>]

(***************************************************************************)
(* The network registry (lib/networks)                                     *)
(***************************************************************************)
LivenetXprivkey == 76066276    \* 0x0488ade4
TestnetXprivkey == 70615956    \* 0x04358394

Livenet == [name |-> "livenet", xprivkey |-> LivenetXprivkey]
Testnet == [name |-> "testnet", xprivkey |-> TestnetXprivkey]
NoNetwork == [name |-> "undefined", xprivkey |-> 0]

Networks == {Livenet, Testnet}

\* Network.get by name
NetworkByName(name) ==
    IF name \in {"livenet", "mainnet"} THEN Livenet
    ELSE IF name = "testnet" THEN Testnet
    ELSE NoNetwork

\* Network.get by version number
NetworkByVersion(v) ==
    IF v = LivenetXprivkey THEN Livenet
    ELSE IF v = TestnetXprivkey THEN Testnet
    ELSE NoNetwork

(***************************************************************************)
(* JavaScript values: a value is a record of its kind and its content.     *)
(***************************************************************************)
Undefined == [k |-> "undefined", n |-> 0, b |-> <<>>, s |-> ""]
Null == [k |-> "null", n |-> 0, b |-> <<>>, s |-> ""]
Bool(x) == [k |-> "boolean", n |-> IF x THEN 1 ELSE 0, b |-> <<>>, s |-> ""]
Num(x) == [k |-> "number", n |-> x, b |-> <<>>, s |-> ""]
NaN == [k |-> "NaN", n |-> 0, b |-> <<>>, s |-> ""]
Str(x) == [k |-> "string", n |-> 0, b |-> <<>>, s |-> x]
\* a string of hexadecimal digits, b the values (0..15) of its digits
Hex(digits) == [k |-> "hex", n |-> 0, b |-> digits, s |-> ""]
Buf(bytes) == [k |-> "buffer", n |-> 0, b |-> bytes, s |-> ""]
\* a registered Network object
Net(name) == [k |-> "network", n |-> 0, b |-> <<>>, s |-> name]

\* a string (or, where the source takes either, a Buffer of its characters)
\* known as a text
TextVal(text) == [k |-> "text", n |-> 0, b |-> <<>>, s |-> "", text |-> text]
TextBuffer(text) == [k |-> "textbuffer", n |-> 0, b |-> <<>>, s |-> "", text |-> text]
\* a plain object with the fields of a key
ObjVal(obj) == [k |-> "object", n |-> 0, b |-> <<>>, s |-> "", obj |-> obj]
\* an HDPrivateKey instance
KeyVal(id) == [k |-> "key", n |-> id, b |-> <<>>, s |-> ""]

\* _.isNumber
IsNumber(v) == v.k \in {"number", "NaN"}

\* bufferUtil.isBuffer
IsBuffer(v) == v.k \in {"buffer", "textbuffer"}

\* _.isString
IsString(v) == v.k \in {"string", "hex", "text"}

\* _.isObject
IsObject(v) == v.k \in {"object", "key", "network", "buffer", "textbuffer"}

\* jsUtil.isHexa: a string of hexadecimal digits only
IsHexa(v) == v.k = "hex" /\ v.b # <<>>

\* ToBoolean
Truthy(v) ==
    CASE v.k \in {"undefined", "null", "NaN"} -> FALSE
      [] v.k \in {"boolean", "number"} -> v.n # 0
      [] v.k = "string" -> v.s # ""
      [] v.k = "hex" -> v.b # <<>>
      [] v.k = "text" -> v.text.t # "empty"
      [] OTHER -> TRUE

\* v.length as a condition: a buffer or a string has a length, a number none
HasLength(v) ==
    CASE v.k \in {"buffer", "hex"} -> v.b # <<>>
      [] v.k = "string" -> v.s # ""
      [] OTHER -> FALSE

\* Network.get of a value: a name, a Network object or a version number
NetworkGet(v) ==
    CASE v.k \in {"string", "network"} -> NetworkByName(v.s)
      [] v.k = "number" -> NetworkByVersion(v.n)
      [] OTHER -> NoNetwork

\* the hexadecimal digits of a buffer, two per byte
Nibbles(buf) ==
    [i \in 1..(2 * Len(buf)) |->
        IF i % 2 = 1 THEN buf[(i + 1) \div 2] \div 16 ELSE buf[i \div 2] % 16]

\* bufferUtil.bufferToHex, buffer.toString('hex')
BufferToHex(buf) == Hex(Nibbles(buf))

\* bufferUtil.hexToBuffer of a string of an even number of digits
FromNibbles(digits) ==
    [i \in 1..(Len(digits) \div 2) |-> digits[2 * i - 1] * 16 + digits[2 * i]]

HexToBuffer(v) == Buf(FromNibbles(v.b))

RECURSIVE DecimalValue(_, _)
DecimalValue(digits, acc) ==
    IF digits = <<>> THEN acc
    ELSE DecimalValue(Tail(digits), acc * 10 + Head(digits))

\* ToInt32(ToNumber(v)), what >> and & make of a value: a number is itself,
\* a string of decimal digits is the number it writes, and NaN, undefined
\* and a string that writes no number are 0
ToInt32(v) ==
    CASE v.k \in {"number", "boolean"} -> v.n
      [] v.k = "hex" ->
            IF \A i \in 1..Len(v.b) : v.b[i] <= 9
            THEN DecimalValue(v.b, 0)
            ELSE 0
      [] OTHER -> 0

\* buffer.toString(): the UTF-8 reading of the bytes.  A byte below 0x80 is
\* its character, a lead byte 0xC2..0xDF with a continuation byte is one
\* character, and a byte that starts no character reads as U+FFFD.
RECURSIVE BufferToString(_)
BufferToString(buf) ==
    IF buf = <<>> THEN <<>>
    ELSE LET b == Head(buf)
         IN  IF b < 128 THEN <<b>> \o BufferToString(Tail(buf))
             ELSE IF b >= 194 /\ b <= 223 /\ Len(buf) >= 2
                     /\ buf[2] >= 128 /\ buf[2] <= 191
                  THEN << (b - 192) * 64 + (buf[2] - 128) >>
                           \o BufferToString(Tail(Tail(buf)))
                  ELSE <<65533>> \o BufferToString(Tail(buf))

(***************************************************************************)
(* The curve and the hashes (lib/crypto): stand-ins over small domains     *)
(***************************************************************************)
\* Point.getN(): the order of the curve
CurveN == 13

\* Hash.sha512hmac(data, key): 64 bytes, here a scalar below 2^4 in the
\* left half and one of four chain codes in the right half
Sha512Hmac(data, key) ==
    LET m == Mix(data, Mix(key, 3))
    IN  BNToBuffer((m + 11) % 16, 32) \o BNToBuffer((m \div 16) % 4, 32)

\* new PrivateKey(bn) followed by toPublicKey(): the scalar must be on the
\* curve's scalar field and have a public point
PrivateKeyValid(bn) == bn > 0 /\ bn < CurveN

\* privateKey.toBuffer(): the scalar in 32 bytes
PrivateKeyToBuffer(bn) == BNToBuffer(bn, 32)

\* publicKey.toBuffer(): the compressed point of the scalar, 33 bytes
PublicKeyToBuffer(bn) ==
    << 2 + (bn % 2) >> \o BNToBuffer((bn * 5 + 1) % 251, 32)

\* Hash.sha256ripemd160(buf): 20 bytes
Sha256Ripemd160(buf) ==
    LET m == Mix(buf, 5)
    IN  << (m * 3) % 256, (m \div 256) % 256, m % 2, 1 >> \o Zeros(16)

(***************************************************************************)
(* The errors: inherits(constructor, superConstructor) as the source calls *)
(* it, over the built-in Error, TypeError and assert's AssertionError      *)
(***************************************************************************)
ErrorKinds ==
    { "InvalidB58Char", "InvalidB58Checksum", "InvalidDerivationArgument",
      "InvalidEntropyArgument", "InvalidLength", "InvalidNetwork",
      "InvalidNetworkArgument", "InvalidPath", "NotEnoughEntropy", "TooMuchEntropy",
      "UnrecognizedArgument" }

\* the constructor a constructor inherits from
Inherits(kind) ==
    CASE kind = "HDPrivateKey.Error" -> "Error"
      [] kind = "InvalidArgument" -> "TypeError"
      [] kind \in { "NotEnoughEntropy", "TooMuchEntropy" } -> "InvalidEntropyArgument"
      [] kind \in ErrorKinds -> "InvalidArgument"
      [] kind \in { "TypeError", "AssertionError" } -> "Error"
      [] OTHER -> "Object"

\* error instanceof constructor, for an error made by new kind(...)
RECURSIVE InstanceOf(_, _)
InstanceOf(kind, constructor) ==
    \/ kind = constructor
    \/ kind # "Object" /\ InstanceOf(Inherits(kind), constructor)

(***************************************************************************)
(* Building a key                                                          *)
(***************************************************************************)
Fail(kind) == [err |-> kind]
Built(key) == [err |-> "", key |-> key]

NoXprivkey == [set |-> FALSE, text |-> EmptyText]

\* checkBuffer(name, size) of _validateBufferArguments
CheckBuffer(v, size) == v.k = "buffer" /\ Len(v.b) = size

ValidateBufferArguments(arg) ==
    /\ CheckBuffer(arg.version, VersionSize)
    /\ CheckBuffer(arg.depth, DepthSize)
    /\ CheckBuffer(arg.parentFingerPrint, ParentFingerPrintSize)
    /\ CheckBuffer(arg.childIndex, ChildIndexSize)
    /\ CheckBuffer(arg.chainCode, ChainCodeSize)
    /\ CheckBuffer(arg.privateKey, PrivateKeySize)
    /\ (Truthy(arg.checksum) /\ HasLength(arg.checksum)
            => CheckBuffer(arg.checksum, CheckSumSize))

\* the payload _buildFromBuffers concatenates
Sequence(arg) ==
    << arg.version.b, arg.depth.b, arg.parentFingerPrint.b, arg.childIndex.b,
       arg.chainCode.b, Zeros(1), arg.privateKey.b >>

\* lines 308-339: the fields _buildFromBuffers sets
KeyFields(arg) ==
    LET concat == Concat(Sequence(arg))
        supplied == Truthy(arg.checksum) /\ HasLength(arg.checksum)
        bn == BNFromBuffer(arg.privateKey.b)
    IN  [buffers |-> [version |-> arg.version.b,
                      depth |-> arg.depth.b,
                      parentFingerPrint |-> arg.parentFingerPrint.b,
                      childIndex |-> arg.childIndex.b,
                      chainCode |-> arg.chainCode.b,
                      privateKey |-> arg.privateKey.b,
                      checksum |-> IF supplied THEN arg.checksum.b
                                   ELSE Base58CheckChecksum(concat)],
         xprivkey |-> IF arg.xprivkey.set THEN arg.xprivkey.text
                      ELSE Base58CheckEncode(concat),
         network |-> NetworkByVersion(IntegerFromBuffer(arg.version.b)),
         depth |-> IntegerFromSingleByteBuffer(arg.depth.b),
         privateKey |-> bn,
         publicKey |-> PublicKeyToBuffer(bn),
         fingerPrint |-> Slice(Sha256Ripemd160(PublicKeyToBuffer(bn)),
                               0, ParentFingerPrintSize)]

\* line 318: the supplied checksum and the computed one, compared as the
\* strings toString() makes of them
ChecksumDiffers(arg) ==
    /\ Truthy(arg.checksum) /\ HasLength(arg.checksum)
    /\ BufferToString(arg.checksum.b)
            # BufferToString(Base58CheckChecksum(Concat(Sequence(arg))))

\* _buildFromBuffers without the construction of the PrivateKey
BuildFromBuffersAnyScalar(arg) ==
    IF ~ValidateBufferArguments(arg) THEN Fail("AssertionError")
    ELSE IF ChecksumDiffers(arg) THEN Fail("InvalidB58Checksum")
    ELSE Built(KeyFields(arg))

BuildFromBuffers(arg) ==
    IF ~ValidateBufferArguments(arg) THEN Fail("AssertionError")
    ELSE IF ChecksumDiffers(arg) THEN Fail("InvalidB58Checksum")
    ELSE IF ~PrivateKeyValid(BNFromBuffer(arg.privateKey.b)) THEN Fail("TypeError")
    ELSE Built(KeyFields(arg))

BuildFromSerialized(text) ==
    LET decoded == Base58CheckDecode(text).data
    IN  BuildFromBuffers([
            version |-> Buf(Slice(decoded, VersionStart, VersionEnd)),
            depth |-> Buf(Slice(decoded, DepthStart, DepthEnd)),
            parentFingerPrint |-> Buf(Slice(decoded, ParentFingerPrintStart,
                                            ParentFingerPrintEnd)),
            childIndex |-> Buf(Slice(decoded, ChildIndexStart, ChildIndexEnd)),
            chainCode |-> Buf(Slice(decoded, ChainCodeStart, ChainCodeEnd)),
            privateKey |-> Buf(Slice(decoded, PrivateKeyStart, PrivateKeyEnd)),
            checksum |-> Buf(Slice(decoded, ChecksumStart, ChecksumEnd)),
            xprivkey |-> [set |-> TRUE, text |-> text]])

\* the fields _buildFromObject reads of its argument; a value that is no
\* object has none of them
NoFields ==
    [network |-> Undefined, version |-> Undefined, depth |-> Undefined,
     parentFingerPrint |-> Undefined, childIndex |-> Undefined,
     chainCode |-> Undefined, privateKey |-> Undefined, checksum |-> Undefined,
     fingerPrint |-> Undefined, xprivkey |-> Undefined]

FieldsOf(v) == IF v.k = "object" THEN v.obj ELSE NoFields

\* integerAsBuffer of a child index, whose word is IndexBits wide
IndexAsBuffer(v) == IntegerAsBuffer(ToInt32(v) % (2 ^ IndexBits))

\* integerFromBuffer of a child index: the signed value of the word
IndexFromBuffer(buf) ==
    LET v == IntegerFromBuffer(buf)
    IN  IF v >= Hardened THEN v - 2 ^ IndexBits ELSE v

\* _buildFromObject reading a hexadecimal string given for parentFingerPrint,
\* childIndex or checksum as the bytes it writes
BuildFromObjectHexNumbers(arg) ==
    IF Truthy(arg.network) /\ NetworkGet(arg.network) = NoNetwork
    THEN Fail("TypeError")
    ELSE IF IsString(arg.chainCode) /\ ~IsHexa(arg.chainCode)
    THEN Fail("AssertionError")
    ELSE BuildFromBuffers([
        version |-> IF Truthy(arg.network)
                    THEN Buf(IntegerAsBuffer(NetworkGet(arg.network).xprivkey))
                    ELSE arg.version,
        depth |-> Buf(IntegerAsSingleByteBuffer(ToInt32(arg.depth))),
        parentFingerPrint |-> IF IsNumber(arg.parentFingerPrint)
                              THEN Buf(IntegerAsBuffer(ToInt32(arg.parentFingerPrint)))
                              ELSE IF IsHexa(arg.parentFingerPrint)
                              THEN HexToBuffer(arg.parentFingerPrint)
                              ELSE arg.parentFingerPrint,
        childIndex |-> IF IsNumber(arg.childIndex)
                       THEN Buf(IndexAsBuffer(arg.childIndex))
                       ELSE IF IsHexa(arg.childIndex)
                       THEN HexToBuffer(arg.childIndex)
                       ELSE arg.childIndex,
        chainCode |-> IF IsString(arg.chainCode)
                      THEN HexToBuffer(arg.chainCode)
                      ELSE arg.chainCode,
        privateKey |-> IF IsString(arg.privateKey) /\ IsHexa(arg.privateKey)
                       THEN HexToBuffer(arg.privateKey)
                       ELSE arg.privateKey,
        checksum |-> IF Truthy(arg.checksum)
                     THEN (IF IsHexa(arg.checksum)
                           THEN HexToBuffer(arg.checksum)
                           ELSE IF HasLength(arg.checksum)
                           THEN arg.checksum
                           ELSE Buf(IntegerAsBuffer(ToInt32(arg.checksum))))
                     ELSE Undefined,
        xprivkey |-> NoXprivkey])

BuildFromObject(arg) ==
    IF Truthy(arg.network) /\ NetworkGet(arg.network) = NoNetwork
    THEN Fail("TypeError")
    ELSE IF IsString(arg.chainCode) /\ ~IsHexa(arg.chainCode)
    THEN Fail("AssertionError")
    ELSE BuildFromBuffers([
        version |-> IF Truthy(arg.network)
                    THEN Buf(IntegerAsBuffer(NetworkGet(arg.network).xprivkey))
                    ELSE arg.version,
        depth |-> Buf(IntegerAsSingleByteBuffer(ToInt32(arg.depth))),
        parentFingerPrint |-> IF IsNumber(arg.parentFingerPrint)
                              THEN Buf(IntegerAsBuffer(ToInt32(arg.parentFingerPrint)))
                              ELSE arg.parentFingerPrint,
        childIndex |-> IF IsNumber(arg.childIndex)
                       THEN Buf(IndexAsBuffer(arg.childIndex))
                       ELSE arg.childIndex,
        chainCode |-> IF IsString(arg.chainCode)
                      THEN HexToBuffer(arg.chainCode)
                      ELSE arg.chainCode,
        privateKey |-> IF IsString(arg.privateKey) /\ IsHexa(arg.privateKey)
                       THEN HexToBuffer(arg.privateKey)
                       ELSE arg.privateKey,
        checksum |-> IF Truthy(arg.checksum)
                     THEN (IF HasLength(arg.checksum)
                           THEN arg.checksum
                           ELSE Buf(IntegerAsBuffer(ToInt32(arg.checksum))))
                     ELSE Undefined,
        xprivkey |-> NoXprivkey])

(***************************************************************************)
(* The serialized-form validator                                           *)
(***************************************************************************)
\* _validateNetwork: the error, or "null"
ValidateNetwork(data, networkArg) ==
    LET network == NetworkGet(networkArg)
        version == Slice(data, 0, 4)
    IN  IF network = NoNetwork THEN "InvalidNetworkArgument"
        ELSE IF IntegerFromBuffer(version) # network.xprivkey THEN "InvalidNetwork"
        ELSE "null"

\* getSerializedError judging the length before the checksum
GetSerializedErrorLengthFirst(data, network) ==
    IF ~(IsString(data) \/ IsBuffer(data)) THEN "InvalidArgument"
    ELSE IF ~ValidCharacters(data.text) THEN "InvalidB58Char"
    ELSE IF Len(data.text.raw) - CheckSumSize # DataLength THEN "InvalidLength"
    ELSE IF ~Base58CheckDecode(data.text).ok THEN "InvalidB58Checksum"
    ELSE IF network.k # "undefined"
         THEN ValidateNetwork(Base58CheckDecode(data.text).data, network)
    ELSE "null"

\* getSerializedError: the error, or "null"
GetSerializedError(data, network) ==
    IF ~(IsString(data) \/ IsBuffer(data)) THEN "InvalidArgument"
    ELSE IF ~ValidCharacters(data.text) THEN "InvalidB58Char"
    ELSE IF ~Base58CheckDecode(data.text).ok THEN "InvalidB58Checksum"
    ELSE IF Len(Base58CheckDecode(data.text).data) # DataLength THEN "InvalidLength"
    ELSE IF network.k # "undefined"
         THEN ValidateNetwork(Base58CheckDecode(data.text).data, network)
    ELSE "null"

IsValidSerialized(data, network) == GetSerializedError(data, network) = "null"

\* jsUtil.isValidJson: the parsed value, or false
IsValidJson(arg) ==
    IF arg.text.json.k = "none" THEN Bool(FALSE) ELSE arg.text.json

(***************************************************************************)
(* fromSeed and the constructor: each gives the key it builds, or the      *)
(* error it throws                                                         *)
(***************************************************************************)
BitcoinSeed == << 66, 105, 116, 99, 111, 105, 110, 32, 115, 101, 101, 100 >>

\* fromSeed taking the chain code from the left half of the hash and the
\* private key from the right half
FromSeedSwapped(hexa, network) ==
    LET buf == IF IsHexa(hexa) THEN HexToBuffer(hexa) ELSE hexa
    IN  IF buf.k # "buffer" THEN Fail("InvalidEntropyArgument")
        ELSE IF Len(buf.b) < BitsToBytes(MINIMUM_ENTROPY_BITS)
        THEN Fail("NotEnoughEntropy")
        ELSE IF Len(buf.b) > BitsToBytes(MAXIMUM_ENTROPY_BITS)
        THEN Fail("TooMuchEntropy")
        ELSE
        LET hash == Sha512Hmac(buf.b, BitcoinSeed)
        IN  BuildFromObject([NoFields EXCEPT
                !.network = IF NetworkGet(network) # NoNetwork
                            THEN Net(NetworkGet(network).name)
                            ELSE Net("livenet"),
                !.depth = Num(0),
                !.parentFingerPrint = Num(0),
                !.childIndex = Num(0),
                !.privateKey = Buf(Slice(hash, 32, 64)),
                !.chainCode = Buf(Slice(hash, 0, 32))])

\* fromSeed refusing the entropies of the two lengths at the bounds
FromSeedStrict(hexa, network) ==
    LET buf == IF IsHexa(hexa) THEN HexToBuffer(hexa) ELSE hexa
    IN  IF buf.k # "buffer" THEN Fail("InvalidEntropyArgument")
        ELSE IF Len(buf.b) <= BitsToBytes(MINIMUM_ENTROPY_BITS)
        THEN Fail("NotEnoughEntropy")
        ELSE IF Len(buf.b) >= BitsToBytes(MAXIMUM_ENTROPY_BITS)
        THEN Fail("TooMuchEntropy")
        ELSE
        LET hash == Sha512Hmac(buf.b, BitcoinSeed)
        IN  BuildFromObject([NoFields EXCEPT
                !.network = IF NetworkGet(network) # NoNetwork
                            THEN Net(NetworkGet(network).name)
                            ELSE Net("livenet"),
                !.depth = Num(0),
                !.parentFingerPrint = Num(0),
                !.childIndex = Num(0),
                !.privateKey = Buf(Slice(hash, 0, 32)),
                !.chainCode = Buf(Slice(hash, 32, 64))])

FromSeed(hexa, network) ==
    LET buf == IF IsHexa(hexa) THEN HexToBuffer(hexa) ELSE hexa
    IN  IF buf.k # "buffer" THEN Fail("InvalidEntropyArgument")
        ELSE IF Len(buf.b) < BitsToBytes(MINIMUM_ENTROPY_BITS)
        THEN Fail("NotEnoughEntropy")
        ELSE IF Len(buf.b) > BitsToBytes(MAXIMUM_ENTROPY_BITS)
        THEN Fail("TooMuchEntropy")
        ELSE
        LET hash == Sha512Hmac(buf.b, BitcoinSeed)
        IN  BuildFromObject([NoFields EXCEPT
                !.network = IF NetworkGet(network) # NoNetwork
                            THEN Net(NetworkGet(network).name)
                            ELSE Net("livenet"),
                !.depth = Num(0),
                !.parentFingerPrint = Num(0),
                !.childIndex = Num(0),
                !.privateKey = Buf(Slice(hash, 0, 32)),
                !.chainCode = Buf(Slice(hash, 32, 64))])

\* _generateRandomly, given the 64 bytes Random.getRandomBuffer returns
GenerateRandomly(random) == FromSeed(Buf(random), Undefined)

\* the constructor throwing UnrecognizedArgument for a text it cannot read
NewHDPrivateKeyUnrecognized(arg, random) ==
    IF Truthy(arg)
    THEN IF IsString(arg) \/ IsBuffer(arg)
         THEN IF IsValidSerialized(arg, Undefined)
              THEN BuildFromSerialized(arg.text)
              ELSE IF Truthy(IsValidJson(arg))
              THEN BuildFromObject(FieldsOf(IsValidJson(arg)))
              ELSE Fail("UnrecognizedArgument")
         ELSE IF IsObject(arg)
              THEN BuildFromObject(FieldsOf(arg))
              ELSE Fail("UnrecognizedArgument")
    ELSE GenerateRandomly(random)

\* new HDPrivateKey(arg) for an arg that is no HDPrivateKey
NewHDPrivateKey(arg, random) ==
    IF Truthy(arg)
    THEN IF IsString(arg) \/ IsBuffer(arg)
         THEN IF IsValidSerialized(arg, Undefined)
              THEN BuildFromSerialized(arg.text)
              ELSE IF Truthy(IsValidJson(arg))
              THEN BuildFromObject(FieldsOf(IsValidJson(arg)))
              ELSE Fail(GetSerializedError(arg, Undefined))
         ELSE IF IsObject(arg)
              THEN BuildFromObject(FieldsOf(arg))
              ELSE Fail("UnrecognizedArgument")
    ELSE GenerateRandomly(random)

(***************************************************************************)
(* Strings of a derivation path: sequences of characters                   *)
(***************************************************************************)
DigitChars == << "0", "1", "2", "3", "4", "5", "6", "7", "8", "9" >>

IsDigit(c) == \E d \in 1..10 : DigitChars[d] = c

DigitOf(c) == (CHOOSE d \in 1..10 : DigitChars[d] = c) - 1

\* path.split('/')
RECURSIVE SplitFrom(_, _)
SplitFrom(str, cur) ==
    IF str = <<>> THEN << cur >>
    ELSE IF Head(str) = "/" THEN << cur >> \o SplitFrom(Tail(str), <<>>)
    ELSE SplitFrom(Tail(str), Append(cur, Head(str)))

Split(str) == SplitFrom(str, <<>>)

RECURSIVE SkipSpaces(_)
SkipSpaces(str) ==
    IF str # <<>> /\ Head(str) = " " THEN SkipSpaces(Tail(str)) ELSE str

\* the longest prefix of decimal digits
RECURSIVE LeadingDigits(_)
LeadingDigits(str) ==
    IF str # <<>> /\ IsDigit(Head(str))
    THEN << DigitOf(Head(str)) >> \o LeadingDigits(Tail(str))
    ELSE <<>>

\* parseInt(str) of a string that has no 0x prefix: leading blanks, a
\* sign, then the longest run of decimal digits; NaN when there is none
ParseInt(str) ==
    LET s1 == SkipSpaces(str)
        signed == s1 # <<>> /\ Head(s1) \in {"-", "+"}
        s2 == IF signed THEN Tail(s1) ELSE s1
        digits == LeadingDigits(s2)
    IN  IF digits = <<>> THEN NaN
        ELSE IF signed /\ Head(s1) = "-" THEN Num(0 - DecimalValue(digits, 0))
        ELSE Num(DecimalValue(digits, 0))

RECURSIVE DigitsOf(_)
DigitsOf(n) ==
    IF n < 10 THEN << DigitChars[n + 1] >>
    ELSE Append(DigitsOf(n \div 10), DigitChars[(n % 10) + 1])

\* number.toString()
NumberToString(v) ==
    IF v.k = "NaN" THEN << "N", "a", "N" >>
    ELSE IF v.n < 0 THEN << "-" >> \o DigitsOf(0 - v.n)
    ELSE DigitsOf(v.n)

RootElementAlias == { << "m" >>, << "M" >>, << "m", "'" >>, << "M", "'" >> }

(***************************************************************************)
(* derive.  A call works on the instances and the cache as they are (st)   *)
(* and gives them as it leaves them, with the instance it returns (id) or  *)
(* the error it throws (err).                                              *)
(***************************************************************************)
Returns(st, id) == [keys |-> st.keys, cache |-> st.cache, err |-> "", id |-> id]
Throws(st, kind) == [keys |-> st.keys, cache |-> st.cache, err |-> kind, id |-> 0]

\* HDKeyCache.get: the entries stored under the three values
HDKeyCacheGet(c, xkey, number, hardened) ==
    { e \in c : e.xkey = xkey /\ e.number = number /\ e.hardened = hardened }

\* HDKeyCache.set
HDKeyCacheSet(c, xkey, number, hardened, derived) ==
    { e \in c : ~(e.xkey = xkey /\ e.number = number /\ e.hardened = hardened) }
        \cup { [xkey |-> xkey, number |-> number, hardened |-> hardened,
                derived |-> derived] }

\* lines 98-103: the index and the flag the derivation goes on with
NormalizedHardened(index, hardened) ==
    IF index.k = "number" /\ index.n >= Hardened THEN Bool(TRUE) ELSE hardened

\* the normalization without the hardened offset
NormalizedIndexAsGiven(index, hardened) == index

NormalizedIndex(index, hardened) ==
    IF index.k = "number" /\ index.n < Hardened
       /\ Truthy(NormalizedHardened(index, hardened))
    THEN Num(index.n + Hardened)
    ELSE index

\* the data of the non-hardened derivation, whatever the flag
DerivationDataPublic(this, index, hardened) ==
    Concat(<< this.publicKey, IndexAsBuffer(index) >>)

\* lines 109-115: the data the HMAC is taken of
DerivationData(this, index, hardened) ==
    IF Truthy(hardened)
    THEN Concat(<< <<0>>, PrivateKeyToBuffer(this.privateKey), IndexAsBuffer(index) >>)
    ELSE Concat(<< this.publicKey, IndexAsBuffer(index) >>)

\* lines 109-129: the child of a key for a normalized index and flag
DeriveChild(this, index, hardened) ==
    LET hash == Sha512Hmac(DerivationData(this, index, hardened),
                           this.buffers.chainCode)
        leftPart == BNFromBuffer(Slice(hash, 0, 32))
        chainCode == Slice(hash, 32, 64)
        privateKey == BNToBuffer((leftPart + this.privateKey) % CurveN, 32)
    IN  BuildFromObject([NoFields EXCEPT
            !.network = IF this.network = NoNetwork THEN Undefined
                        ELSE Net(this.network.name),
            !.depth = Num(this.depth + 1),
            !.parentFingerPrint = Buf(this.fingerPrint),
            !.childIndex = index,
            !.chainCode = Buf(chainCode),
            !.privateKey = Buf(privateKey)])

\* _deriveWithNumber with a cache that is not told the parent
DeriveWithNumberAnyParent(st, this, index0, hardened0) ==
    LET hardened == NormalizedHardened(index0, hardened0)
        index == NormalizedIndex(index0, hardened0)
        cached == HDKeyCacheGet(st.cache, EmptyText, index, hardened)
    IN  IF cached # {} THEN Returns(st, (CHOOSE e \in cached : TRUE).derived)
        ELSE
        LET derived == DeriveChild(st.keys[this], index, hardened)
            id == Len(st.keys) + 1
        IN  IF derived.err # "" THEN Throws(st, derived.err)
            ELSE [keys |-> Append(st.keys, derived.key),
                  cache |-> HDKeyCacheSet(st.cache, EmptyText, index, hardened, id),
                  err |-> "", id |-> id]

\* _deriveWithNumber storing its entry before the child is built
DeriveWithNumberStoreFirst(st, this, index0, hardened0) ==
    LET hardened == NormalizedHardened(index0, hardened0)
        index == NormalizedIndex(index0, hardened0)
        xprivkey == st.keys[this].xprivkey
        cached == HDKeyCacheGet(st.cache, xprivkey, index, hardened)
        id == Len(st.keys) + 1
        stored == HDKeyCacheSet(st.cache, xprivkey, index, hardened, id)
    IN  IF cached # {} /\ (CHOOSE e \in cached : TRUE).derived <= Len(st.keys)
        THEN Returns(st, (CHOOSE e \in cached : TRUE).derived)
        ELSE
        LET derived == DeriveChild(st.keys[this], index, hardened)
        IN  IF derived.err # ""
            THEN [keys |-> st.keys, cache |-> stored, err |-> derived.err, id |-> 0]
            ELSE [keys |-> Append(st.keys, derived.key), cache |-> stored,
                  err |-> "", id |-> id]

\* _deriveWithNumber writing the fields of the child into the parent
DeriveWithNumberInPlace(st, this, index0, hardened0) ==
    LET hardened == NormalizedHardened(index0, hardened0)
        index == NormalizedIndex(index0, hardened0)
        derived == DeriveChild(st.keys[this], index, hardened)
    IN  IF derived.err # "" THEN Throws(st, derived.err)
        ELSE [keys |-> [st.keys EXCEPT ![this] = derived.key],
              cache |-> st.cache, err |-> "", id |-> this]

DeriveWithNumber(st, this, index0, hardened0) ==
    LET hardened == NormalizedHardened(index0, hardened0)
        index == NormalizedIndex(index0, hardened0)
        xprivkey == st.keys[this].xprivkey
        cached == HDKeyCacheGet(st.cache, xprivkey, index, hardened)
    IN  IF cached # {} THEN Returns(st, (CHOOSE e \in cached : TRUE).derived)
        ELSE
        LET derived == DeriveChild(st.keys[this], index, hardened)
            id == Len(st.keys) + 1
        IN  IF derived.err # "" THEN Throws(st, derived.err)
            ELSE [keys |-> Append(st.keys, derived.key),
                  cache |-> HDKeyCacheSet(st.cache, xprivkey, index, hardened, id),
                  err |-> "", id |-> id]

\* the loop of _deriveFromString over the steps left
RECURSIVE DeriveSteps(_, _, _)

\* the loop with no step taken as hardened
DeriveStepsPlain(st, result, steps) ==
    IF steps = <<>> THEN Returns(st, result)
    ELSE LET index == ParseInt(Head(steps))
             r == DeriveWithNumber(st, result, index, Bool(FALSE))
         IN  IF r.err # "" THEN r
             ELSE DeriveSteps([keys |-> r.keys, cache |-> r.cache], r.id, Tail(steps))

DeriveSteps(st, result, steps) ==
    IF steps = <<>> THEN Returns(st, result)
    ELSE LET index == ParseInt(Head(steps))
             hardened == Bool(Head(steps) # NumberToString(index))
             r == DeriveWithNumber(st, result, index, hardened)
         IN  IF r.err # "" THEN r
             ELSE DeriveSteps([keys |-> r.keys, cache |-> r.cache], r.id, Tail(steps))

DeriveFromString(st, this, path) ==
    LET steps == Split(path)
    IN  IF path \in RootElementAlias THEN Returns(st, this)
        ELSE IF Head(steps) \notin RootElementAlias THEN Throws(st, "InvalidPath")
        ELSE DeriveSteps(st, this, Tail(steps))

\* derive(arg, hardened): arg a number, a path (a sequence of characters
\* under the kind "path") or any other value
Path(chars) == [k |-> "path", n |-> 0, b |-> <<>>, s |-> "", chars |-> chars]

Derive(st, this, arg, hardened) ==
    IF IsNumber(arg) THEN DeriveWithNumber(st, this, arg, hardened)
    ELSE IF arg.k = "path" THEN DeriveFromString(st, this, arg.chars)
    ELSE Throws(st, "InvalidDerivationArgument")

(***************************************************************************)
(* toString, toObject, toJson                                              *)
(***************************************************************************)
\* toString
KeyToString(key) == TextVal(key.xprivkey)

\* toObject, or the error it throws: a key of no registered network has no
\* network whose name to read
ToObject(key) ==
    LET network == NetworkByVersion(IntegerFromBuffer(key.buffers.version))
    IN  IF network = NoNetwork THEN [err |-> "TypeError"]
        ELSE [err |-> "", value |-> ObjVal([
            network |-> Str(network.name),
            version |-> Undefined,
            depth |-> Num(IntegerFromSingleByteBuffer(key.buffers.depth)),
            fingerPrint |-> Num(IntegerFromBuffer(key.fingerPrint)),
            parentFingerPrint |-> Num(IntegerFromBuffer(key.buffers.parentFingerPrint)),
            childIndex |-> Num(IndexFromBuffer(key.buffers.childIndex)),
            chainCode |-> BufferToHex(key.buffers.chainCode),
            privateKey |-> BufferToHex(PrivateKeyToBuffer(key.privateKey)),
            checksum |-> Num(IntegerFromBuffer(key.buffers.checksum)),
            xprivkey |-> TextVal(key.xprivkey)])]

\* JSON.stringify then JSON.parse of a field: a number or a string is read
\* back as written, NaN is written as null, undefined is not written
JsonField(v) == IF v.k = "NaN" THEN Null ELSE v

JsonStringify(v) ==
    JsonText(ObjVal([f \in DOMAIN v.obj |-> JsonField(v.obj[f])]))

ToJson(key) ==
    IF ToObject(key).err # "" THEN [err |-> ToObject(key).err]
    ELSE [err |-> "", value |-> TextVal(JsonStringify(ToObject(key).value))]

(***************************************************************************)
(* new HDPrivateKey(arg) for an arg that is an HDPrivateKey (lines 37-39)  *)
(***************************************************************************)
\* the constructor building a copy of its argument
NewFromInstanceCopy(st, id) ==
    [keys |-> Append(st.keys, st.keys[id]), cache |-> st.cache,
     err |-> "", id |-> Len(st.keys) + 1]

NewFromInstance(st, id) == Returns(st, id)

(***************************************************************************)
(* The arguments the calls are made with                                   *)
(***************************************************************************)
MinBytes == BitsToBytes(MINIMUM_ENTROPY_BITS)
MaxBytes == BitsToBytes(MAXIMUM_ENTROPY_BITS)

\* an entropy of len bytes, told from the others of its length by x
Entropy(len, x) == [i \in 1..len |-> IF i = len THEN x ELSE 0]

EntropyLengths == { MinBytes - 1, MinBytes, 2 * MinBytes, MaxBytes, MaxBytes + 1 }

EntropyBuffers == { Entropy(len, x) : len \in EntropyLengths, x \in 1..SeedVariants }

\* what fromSeed is called with: bytes, their hexadecimal strings, and
\* values that are neither
Entropies ==
    { Buf(b) : b \in EntropyBuffers } \cup { BufferToHex(b) : b \in EntropyBuffers }
        \cup { Undefined, Num(16), Str("entropy") }

\* what Random.getRandomBuffer(64) may return
RandomBuffers == { Entropy(MaxBytes, x) : x \in 1..SeedVariants }

NetworkArgs ==
    { Undefined, Str("livenet"), Str("testnet"), Str("regtest"), Net("testnet") }

\* a 78-byte payload
Payload(version, depth, childIndex, chainCode, pad, privateKey) ==
    Concat(<< IntegerAsBuffer(version), <<depth>>, Zeros(ParentFingerPrintSize),
              IntegerAsBuffer(childIndex), BNToBuffer(chainCode, ChainCodeSize),
              <<pad>>, BNToBuffer(privateKey, PrivateKeySize) >>)

\* a text whose byte at the offset pos of its final four is another one
Corrupted(text, pos) ==
    LET at == Len(text.raw) - CheckSumSize + pos
    IN  [text EXCEPT !.raw = [text.raw EXCEPT ![at] = (text.raw[at] + 1) % 256]]

LivenetRoot == Base58CheckEncode(Payload(LivenetXprivkey, 0, 0, 1, 0, 5))
TestnetChild == Base58CheckEncode(Payload(TestnetXprivkey, 1, Hardened + 1, 2, 0, 7))

FixedTexts ==
    { LivenetRoot, TestnetChild,
      \* a version of no registered network
      Base58CheckEncode(Payload(1, 0, 0, 1, 0, 5)),
      \* a byte other than zero before the private key
      Base58CheckEncode(Payload(LivenetXprivkey, 0, 0, 1, 1, 5)),
      \* the scalars 0 and N
      Base58CheckEncode(Payload(LivenetXprivkey, 0, 0, 1, 0, 0)),
      Base58CheckEncode(Payload(LivenetXprivkey, 0, 0, 1, 0, CurveN)),
      \* payloads of 77 and 79 bytes
      Base58CheckEncode(Tail(Payload(LivenetXprivkey, 0, 0, 1, 0, 5))),
      Base58CheckEncode(Payload(LivenetXprivkey, 0, 0, 1, 0, 5) \o <<0>>),
      \* fewer bytes than a checksum
      B58Text(<<6>>),
      \* the text 7, which is Base58 and JSON
      [t |-> "b58", raw |-> <<6>>, json |-> Num(7)],
      JsonText(Null), JunkText, EmptyText }
        \cup { Corrupted(LivenetRoot, pos) : pos \in 1..CheckSumSize }

\* a field bag
FieldBag(network, depth, childIndex, chainCode, privateKey, checksum) ==
    ObjVal([NoFields EXCEPT
        !.network = network, !.depth = depth, !.parentFingerPrint = Num(0),
        !.childIndex = childIndex, !.chainCode = chainCode,
        !.privateKey = privateKey, !.checksum = checksum])

HexOf(n) == BufferToHex(BNToBuffer(n, 32))

\* a field bag of a livenet key of depth 1, with the numeric fields as given
NumericBag(depth, parentFingerPrint, childIndex, checksum) ==
    ObjVal([NoFields EXCEPT
        !.network = Str("livenet"), !.depth = depth,
        !.parentFingerPrint = parentFingerPrint, !.childIndex = childIndex,
        !.chainCode = HexOf(1), !.privateKey = HexOf(5), !.checksum = checksum])

\* the numeric fields of that key: as bytes, as the integers toObject
\* gives, and as hexadecimal text
BagDepth == << 1 >>
BagParent == << 0, 0, 1, 2 >>
BagIndex == IntegerAsBuffer(Hardened + 1)
BagChecksum ==
    Base58CheckChecksum(Concat(<< IntegerAsBuffer(LivenetXprivkey), BagDepth, BagParent,
                                  BagIndex, BNToBuffer(1, 32), << 0 >>, BNToBuffer(5, 32) >>))

NativeBag ==
    NumericBag(Num(1), Num(IntegerFromBuffer(BagParent)), Num(Hardened + 1), Undefined)

\* the bag with the checksum as well, an integer
NativeBagChecked ==
    NumericBag(Num(1), Num(IntegerFromBuffer(BagParent)), Num(Hardened + 1),
               Num(IntegerFromBuffer(BagChecksum)))

\* the bags with one or all of the numeric fields as hexadecimal text
HexBags ==
    { NumericBag(Num(1), BufferToHex(BagParent), Num(Hardened + 1), Undefined),
      NumericBag(Num(1), Num(IntegerFromBuffer(BagParent)), BufferToHex(BagIndex), Undefined),
      NumericBag(Num(1), Num(IntegerFromBuffer(BagParent)), Num(Hardened + 1),
                 BufferToHex(BagChecksum)),
      NumericBag(BufferToHex(BagDepth), Num(IntegerFromBuffer(BagParent)),
                 Num(Hardened + 1), Undefined),
      NumericBag(BufferToHex(BagDepth), BufferToHex(BagParent), BufferToHex(BagIndex),
                 BufferToHex(BagChecksum)) }

\* the bags with the numeric fields but depth as buffers
BufferBags ==
    { NumericBag(Num(1), Buf(BagParent), Buf(BagIndex), Undefined),
      NumericBag(Num(1), Buf(BagParent), Buf(BagIndex), Buf(BagChecksum)) }

\* a JSON text of a bag
JsonOf(bag) == TextVal(JsonText(bag))

NumericArgs ==
    { NativeBag, NativeBagChecked } \cup HexBags \cup BufferBags
        \cup { JsonOf(NativeBag) } \cup { JsonOf(bag) : bag \in HexBags }

\* a field bag of a livenet root with the checksum as given
ChecksumBag(checksum) ==
    FieldBag(Str("livenet"), Num(0), Num(0), HexOf(1), HexOf(3), checksum)

\* the Base58Check checksum of its 78 bytes
TrueChecksum == Base58CheckChecksum(Payload(LivenetXprivkey, 0, 0, 1, 0, 3))

\* the checksum with its byte at pos replaced by the next value
OtherChecksum(pos) == [TrueChecksum EXCEPT ![pos] = (TrueChecksum[pos] + 1) % 256]

\* the checksum with each byte above 0x7f replaced by 0xff, or by 0xfe
GarbledChecksum ==
    [i \in 1..CheckSumSize |->
        IF TrueChecksum[i] < 128 THEN TrueChecksum[i]
        ELSE IF TrueChecksum[i] = 255 THEN 254 ELSE 255]

\* the bags with no checksum, with the checksum of the payload, with one
\* that differs from it in one byte, and with the integers of some of these
ChecksumArgs ==
    { ChecksumBag(Undefined), ChecksumBag(Buf(TrueChecksum)),
      ChecksumBag(Num(IntegerFromBuffer(TrueChecksum))),
      ChecksumBag(Num(IntegerFromBuffer(OtherChecksum(CheckSumSize)))),
      ChecksumBag(Num(0)), ChecksumBag(Buf(GarbledChecksum)) }
        \cup { ChecksumBag(Buf(OtherChecksum(pos))) : pos \in 1..CheckSumSize }

FixedObjects ==
    { FieldBag(Str("livenet"), Num(0), Num(0), HexOf(1), HexOf(5), Undefined),
      FieldBag(Str("testnet"), Num(1), Num(Hardened + 1), Buf(BNToBuffer(2, 32)),
               Buf(BNToBuffer(7, 32)), Undefined),
      FieldBag(Str("regtest"), Num(0), Num(0), HexOf(1), HexOf(5), Undefined),
      FieldBag(Str("livenet"), Num(0), Num(0), Str("chain"), HexOf(5), Undefined),
      FieldBag(Str("livenet"), Num(0), Num(0), HexOf(1), HexOf(5), Buf(<<1, 2, 3, 4>>)),
      FieldBag(Str("livenet"), Num(0), Num(0), HexOf(1), HexOf(0), Undefined),
      FieldBag(Str("livenet"), Num(0), Num(0), HexOf(1), HexOf(CurveN), Undefined),
      ObjVal(NoFields), Net("livenet") }

ConstructorArgs ==
    { TextVal(t) : t \in FixedTexts }
        \cup { TextBuffer(t) : t \in { LivenetRoot, JunkText, EmptyText } }
        \cup FixedObjects
        \cup NumericArgs
        \cup ChecksumArgs
        \cup { Undefined, Null, NaN, Num(0), Num(5), Bool(FALSE), Bool(TRUE) }

SerializedData ==
    { TextVal(t) : t \in FixedTexts }
        \cup { TextBuffer(t) : t \in { LivenetRoot, JunkText, EmptyText } }
        \cup { Undefined, Num(5), ObjVal(NoFields) }

\* derive(number, flag)
IndexArgs == { 1, Hardened + 1 }
Flags == { Undefined, Bool(TRUE) }

\* the segments of the paths: an index, or an index and the hardening mark
PlainSegment(i) == NumberToString(Num(i))
HardenedSegment(i) == NumberToString(Num(i)) \o << "'" >>
Segments == { PlainSegment(1), HardenedSegment(1) }

RECURSIVE PathsOf(_)
PathsOf(n) ==
    IF n = 0 THEN { << "m" >> }
    ELSE PathsOf(n - 1)
            \cup { p \o << "/" >> \o seg : p \in PathsOf(n - 1), seg \in Segments }

Paths == PathsOf(MaxSteps) \cup { << "M", "'" >>, << "1", "/", "1" >> }

DeriveArgs ==
    { Num(i) : i \in IndexArgs } \cup { Path(p) : p \in Paths } \cup { Undefined, Null }

(***************************************************************************)
(* The state machine: the calls a program makes on the module              *)
(***************************************************************************)
\* a call: the operation, the way the constructor took (via), the instance
\* it was made on or from (this), its arguments, and the error it threw
\* (err) or the instance it returned (id)
Call(op, via, this, arg, aux, err, id) ==
    [op |-> op, via |-> via, this |-> this, arg |-> arg, aux |-> aux,
     err |-> err, id |-> id]

Init ==
    /\ keys = <<>>
    /\ cache = {}
    /\ last = Call("init", "", 0, Undefined, Undefined, "", 0)

Instances == 1..Len(keys)

State == [keys |-> keys, cache |-> cache]

\* a call of the constructor or of fromSeed that built r
Build(r, op, via, this, arg, aux) ==
    /\ IF r.err # ""
       THEN /\ keys' = keys
            /\ last' = Call(op, via, this, arg, aux, r.err, 0)
       ELSE /\ Len(keys) < MaxKeys
            /\ keys' = Append(keys, r.key)
            /\ last' = Call(op, via, this, arg, aux, "", Len(keys) + 1)
    /\ UNCHANGED cache

\* new HDPrivateKey(arg)
Construct ==
    \E arg \in ConstructorArgs :
        \E random \in IF Truthy(arg) THEN { Zeros(MaxBytes) } ELSE RandomBuffers :
            Build(NewHDPrivateKey(arg, random), "new", "arg", 0, arg,
                  IF Truthy(arg) THEN Undefined ELSE Buf(random))

\* new HDPrivateKey(k)
ConstructFromInstance ==
    \E k \in Instances :
        LET r == NewFromInstance(State, k)
        IN  /\ Len(r.keys) <= MaxKeys
            /\ keys' = r.keys
            /\ cache' = r.cache
            /\ last' = Call("new", "instance", k, Undefined, Undefined, r.err, r.id)

\* new HDPrivateKey(k.toString())
ConstructFromString ==
    \E k \in Instances :
        Build(NewHDPrivateKey(KeyToString(keys[k]), Zeros(MaxBytes)),
              "new", "toString", k, Undefined, Undefined)

\* new HDPrivateKey(k.toObject())
ConstructFromObject ==
    \E k \in Instances :
        LET obj == ToObject(keys[k])
        IN  Build(IF obj.err # "" THEN obj
                  ELSE NewHDPrivateKey(obj.value, Zeros(MaxBytes)),
                  "new", "toObject", k, Undefined, Undefined)

\* new HDPrivateKey(k.toJson())
ConstructFromJson ==
    \E k \in Instances :
        LET json == ToJson(keys[k])
        IN  Build(IF json.err # "" THEN json
                  ELSE NewHDPrivateKey(json.value, Zeros(MaxBytes)),
                  "new", "toJson", k, Undefined, Undefined)

\* HDPrivateKey.fromSeed(hexa, network)
CallFromSeed ==
    \E hexa \in Entropies, network \in NetworkArgs :
        Build(FromSeed(hexa, network), "fromSeed", "", 0, hexa, network)

\* the way derive takes with an argument
DeriveVia(arg) ==
    IF IsNumber(arg) THEN "number" ELSE IF arg.k = "path" THEN "path" ELSE "other"

\* k.derive(arg, hardened)
CallDerive ==
    \E this \in Instances, arg \in DeriveArgs :
        \E hardened \in IF IsNumber(arg) THEN Flags ELSE { Undefined } :
            LET r == Derive(State, this, arg, hardened)
            IN  /\ Len(r.keys) <= MaxKeys
                /\ keys' = r.keys
                /\ cache' = r.cache
                /\ last' = Call("derive", DeriveVia(arg), this, Undefined, Undefined,
                                r.err, r.id)

\* HDPrivateKey.getSerializedError(data, network) and isValidSerialized
CallGetSerializedError ==
    \E data \in SerializedData \cup { KeyToString(keys[k]) : k \in Instances },
       network \in NetworkArgs :
        /\ last' = [Call("getSerializedError", "", 0, data, network,
                         GetSerializedError(data, network), 0)
                    EXCEPT !.id = IF IsValidSerialized(data, network) THEN 1 ELSE 0]
        /\ UNCHANGED << keys, cache >>

Next ==
    \/ Construct
    \/ ConstructFromInstance
    \/ ConstructFromString
    \/ ConstructFromObject
    \/ ConstructFromJson
    \/ CallFromSeed
    \/ CallDerive
    \/ CallGetSerializedError

Spec == Init /\ [][Next]_vars

(***************************************************************************)
(* Scenarios: the calls of one part of the module                          *)
(***************************************************************************)
\* fromSeed in a process that has built no key
NextSeed == Len(keys) = 0 /\ CallFromSeed

SpecSeed == Init /\ [][NextSeed]_vars

\* the validator
NextValidate == CallGetSerializedError

SpecValidate == Init /\ [][NextValidate]_vars

\* a key built by the constructor, and the keys built of its forms
NextConstruct ==
    \/ Len(keys) = 0 /\ Construct
    \/ ConstructFromInstance
    \/ ConstructFromString
    \/ ConstructFromObject
    \/ ConstructFromJson

SpecConstruct == Init /\ [][NextConstruct]_vars

\* the seeds and the constructor arguments of the roots of the derivations
RootEntropies == { Buf(Entropy(MinBytes, x)) : x \in 1..SeedVariants }
RootArgs ==
    { TextVal(TestnetChild),
      FieldBag(Str("livenet"), Num(0), Num(0), HexOf(1), HexOf(0), Undefined),
      TextVal(Base58CheckEncode(Payload(LivenetXprivkey, 0, 0, 1, 0, 0))),
      TextVal(Base58CheckEncode(Payload(LivenetXprivkey, 0, 0, 1, 0, CurveN))) }

CreateRoot ==
    /\ Len(keys) = 0
    /\ \/ \E hexa \in RootEntropies :
            Build(FromSeed(hexa, Undefined), "fromSeed", "", 0, hexa, Undefined)
       \/ \E arg \in RootArgs :
            Build(NewHDPrivateKey(arg, Zeros(MaxBytes)), "new", "arg", 0, arg, Undefined)

NextDerive ==
    \/ CreateRoot
    \/ CallDerive
    \/ ConstructFromInstance

SpecDerive == Init /\ [][NextDerive]_vars

\* derivations from keys at the end of the range of the depth byte
DepthLimit == 2 ^ (8 * DepthSize) - 1

DeepRoots ==
    { TextVal(Base58CheckEncode(Payload(LivenetXprivkey, depth, 0, 1, 0, 5))) :
        depth \in (DepthLimit - 1)..DepthLimit }

CreateDeepRoot ==
    /\ Len(keys) = 0
    /\ \E arg \in DeepRoots :
            Build(NewHDPrivateKey(arg, Zeros(MaxBytes)), "new", "arg", 0, arg, Undefined)

NextDepth ==
    \/ CreateDeepRoot
    \/ CallDerive

SpecDepth == Init /\ [][NextDepth]_vars

(***************************************************************************)
(* Derivation by steps, for the claims on derive                           *)
(***************************************************************************)
\* a step: the index and the flag of a call derive(index, hardened)
StepIndexes == { 0, 1, Hardened + 1 }
StepFlags == { Undefined, Bool(FALSE), Bool(TRUE) }
Steps == { [index |-> i, hardened |-> h] : i \in StepIndexes, h \in StepFlags }

RECURSIVE StepSeqsOf(_)
StepSeqsOf(n) ==
    IF n = 0 THEN { <<>> }
    ELSE StepSeqsOf(n - 1)
            \cup { Append(q, step) : q \in StepSeqsOf(n - 1), step \in Steps }

StepSeqs == StepSeqsOf(MaxSteps)

\* the path of a sequence of steps: m, then /index for a step that is not
\* hardened and /index' for a hardened one
RECURSIVE PathOfSteps(_)
PathOfSteps(steps) ==
    IF steps = <<>> THEN << "m" >>
    ELSE LET step == steps[Len(steps)]
         IN  PathOfSteps(SubSeq(steps, 1, Len(steps) - 1)) \o << "/" >>
                \o NumberToString(Num(step.index))
                \o (IF Truthy(step.hardened) THEN << "'" >> ELSE <<>>)

\* the calls derive(index, hardened) of the steps, each on the key the one
\* before it returned
RECURSIVE StepByStep(_, _, _)
StepByStep(st, this, steps) ==
    IF steps = <<>> THEN Returns(st, this)
    ELSE LET r == Derive(st, this, Num(Head(steps).index), Head(steps).hardened)
         IN  IF r.err # "" THEN r
             ELSE StepByStep([keys |-> r.keys, cache |-> r.cache], r.id, Tail(steps))

\* the state a call leaves
After(r) == [keys |-> r.keys, cache |-> r.cache]

(***************************************************************************)
(* C1                                                                      *)
(***************************************************************************)
\* C1: for every key root and every sequence of steps, deriving the steps
\* one by one with derive(index, hardened) and then calling
\* root.derive(path), path being m followed by /index or /index' for each
\* step, end alike: both throw the same error, or both return keys that are
\* equal field for field (and so have the same xprivkey).
C1_PathEqualsSteps ==
    \A root \in Instances, steps \in StepSeqs :
        LET byStep == StepByStep(State, root, steps)
            byPath == Derive(After(byStep), root, Path(PathOfSteps(steps)), Undefined)
        IN  /\ byPath.err = byStep.err
            /\ byStep.err = "" => byPath.keys[byPath.id] = byStep.keys[byStep.id]

\* a path of MaxSteps steps, one of them hardened, has been derived, and the
\* steps taken one by one from the same key give an equal key
C1_Witness ==
    /\ last.op = "derive" /\ last.via = "path" /\ last.err = ""
    /\ keys[last.id].depth = keys[last.this].depth + MaxSteps
    /\ \E steps \in StepSeqs :
            /\ Len(steps) = MaxSteps
            /\ Truthy(steps[MaxSteps].hardened) /\ ~Truthy(steps[1].hardened)
            /\ LET byStep == StepByStep(State, last.this, steps)
               IN  byStep.err = "" /\ byStep.keys[byStep.id] = keys[last.id]

(***************************************************************************)
(* C2                                                                      *)
(***************************************************************************)
\* C2: for every parent, every index i below Hardened and every value of
\* the flag, derive(i + Hardened, flag) and derive(i, true) end in the same
\* way: the same error, or the same instance out of the same cache entry,
\* whose childIndex is i + Hardened.
C2_HardenedNormalization ==
    \A this \in Instances, i \in 0..(Hardened - 1), flag \in StepFlags :
        LET offset == Derive(State, this, Num(i + Hardened), flag)
            flagged == Derive(State, this, Num(i), Bool(TRUE))
        IN  /\ offset = flagged
            /\ offset.err = "" =>
                    /\ offset.keys[offset.id].buffers.childIndex
                            = IntegerAsBuffer(i + Hardened)
                    /\ \E e \in offset.cache :
                            /\ e.xkey = keys[this].xprivkey
                            /\ e.number = Num(i + Hardened)
                            /\ e.hardened = Bool(TRUE)
                            /\ e.derived = offset.id

\* derive(i, true) has built a child, and derive(i + Hardened) now returns it
C2_Witness ==
    /\ last.op = "derive" /\ last.via = "number" /\ last.err = ""
    /\ \E i \in 0..(Hardened - 1) :
            /\ keys[last.id].buffers.childIndex = IntegerAsBuffer(i + Hardened)
            /\ Derive(State, last.this, Num(i + Hardened), Undefined).id = last.id
            /\ Derive(State, last.this, Num(i), Bool(TRUE)).id = last.id

(***************************************************************************)
(* C3                                                                      *)
(***************************************************************************)
\* the fields a payload decodes to, by the offsets of the layout
DecodedFields(data) ==
    [version |-> Slice(data, VersionStart, VersionEnd),
     depth |-> Slice(data, DepthStart, DepthEnd),
     parentFingerPrint |-> Slice(data, ParentFingerPrintStart, ParentFingerPrintEnd),
     childIndex |-> Slice(data, ChildIndexStart, ChildIndexEnd),
     chainCode |-> Slice(data, ChainCodeStart, ChainCodeEnd),
     privateKey |-> Slice(data, PrivateKeyStart, PrivateKeyEnd)]

\* the fields encoded in table order, with the zero byte before the private
\* key and the checksum of the 78 bytes
EncodedFields(f) ==
    Base58CheckEncode(Concat(<< f.version, f.depth, f.parentFingerPrint, f.childIndex,
                                f.chainCode, <<0>>, f.privateKey >>))

\* a call new HDPrivateKey(s) with s a text or its bytes
ConstructedFromText ==
    last.op = "new" /\ last.via = "arg" /\ last.arg.k \in { "text", "textbuffer" }

\* C3: for every text s that isValidSerialized accepts, the fields s
\* decodes to encode to s again, and the key built from s has s as its
\* xprivkey.
C3_SerializedRoundTrip ==
    ConstructedFromText /\ IsValidSerialized(last.arg, Undefined) =>
        /\ EncodedFields(DecodedFields(Base58CheckDecode(last.arg.text).data)).raw
                = last.arg.text.raw
        /\ last.err = "" => keys[last.id].xprivkey = last.arg.text

\* the second half of C3 alone: the key built from s reports s
C3_KeyReportsText ==
    ConstructedFromText /\ IsValidSerialized(last.arg, Undefined) /\ last.err = "" =>
        keys[last.id].xprivkey = last.arg.text

(***************************************************************************)
(* C4                                                                      *)
(***************************************************************************)
\* two keys with the same fields
SameFields(a, b) ==
    /\ a.network = b.network
    /\ a.depth = b.depth
    /\ a.buffers = b.buffers
    /\ a.privateKey = b.privateKey
    /\ a.xprivkey.raw = b.xprivkey.raw

\* C4: a key constructed from k.toObject(), k.toJson() or k.toString() is
\* built, and has the network, depth, parentFingerPrint, childIndex,
\* chainCode, privateKey, checksum and xprivkey of k.
C4_FormsRoundTrip ==
    last.op = "new" /\ last.via \in { "toObject", "toJson", "toString" } =>
        /\ last.err = ""
        /\ SameFields(keys[last.id], keys[last.this])

\* the keys C4 holds of: those whose xprivkey is the encoding of their
\* fields and whose version is a registered network's
Canonical(key) ==
    /\ key.network # NoNetwork
    /\ key.xprivkey.raw = EncodedFields(key.buffers).raw

C4_CanonicalRoundTrip ==
    last.op = "new" /\ last.via \in { "toObject", "toJson", "toString" }
        /\ Canonical(keys[last.this]) =>
            /\ last.err = ""
            /\ SameFields(keys[last.id], keys[last.this])

(***************************************************************************)
(* C5                                                                      *)
(***************************************************************************)
\* C5: in every state derive calls lead to, a call derive(i, h) on a parent
\* ends as the derivation computed from the parent with no cache does: the
\* same error, or a key equal to it field for field, whether the cache
\* holds the entry or not; and when it holds it, the call returns the
\* instance stored and builds nothing.
C5_CacheTransparency ==
    \A this \in Instances, i \in 0..(2 ^ IndexBits - 1), h \in StepFlags :
        LET call == Derive(State, this, Num(i), h)
            index == IF Truthy(h) /\ i < Hardened THEN Num(i + Hardened) ELSE Num(i)
            hardened == IF i >= Hardened THEN Bool(TRUE) ELSE h
            computed == DeriveChild(keys[this], index, hardened)
            stored == { e \in cache : /\ e.xkey = keys[this].xprivkey
                                      /\ e.number = index
                                      /\ e.hardened = hardened }
        IN  /\ call.err = computed.err
            /\ call.err = "" => call.keys[call.id] = computed.key
            /\ stored # {} =>
                    /\ call.err = ""
                    /\ call.keys = keys /\ call.cache = cache
                    /\ \A e \in stored : e.derived = call.id

\* a numeric derive has returned an instance that an earlier call had built
C5_Witness ==
    /\ last.op = "derive" /\ last.via = "number" /\ last.err = ""
    /\ last.id < Len(keys)
    /\ \E e \in cache : e.xkey = keys[last.this].xprivkey /\ e.derived = last.id

(***************************************************************************)
(* C9                                                                      *)
(***************************************************************************)
\* C9: new HDPrivateKey(k) of an instance k returns k itself, and leaves
\* the instances, their fields and the cache as they were.
C9_ConstructorIdentity ==
    [][last'.op = "new" /\ last'.via = "instance" =>
            /\ last'.err = "" /\ last'.id = last'.this
            /\ keys' = keys
            /\ cache' = cache]_vars

\* the constructor has returned a derived key it was given, the cache
\* holding entries
C9_Witness ==
    /\ last.op = "new" /\ last.via = "instance" /\ last.id = last.this
    /\ last.this > 1 /\ cache # {}

(***************************************************************************)
(* C6                                                                      *)
(***************************************************************************)
ScalarInRange(n) == n > 0 /\ n < CurveN

\* an entropy: bytes, or a string of hexadecimal digits
IsEntropy(v) == v.k = "buffer" \/ (v.k = "hex" /\ v.b # <<>>)

\* its bytes and their number
EntropyBytes(v) == IF v.k = "hex" THEN FromNibbles(v.b) ELSE v.b

\* the scalar of the master key of a seed: the left half of the HMAC
SeedScalar(bytes) == BNFromBuffer(SubSeq(Sha512Hmac(bytes, BitcoinSeed), 1, 32))

\* C6 as stated: fromSeed of n bytes fails with NotEnoughEntropy when
\* n < 16, with TooMuchEntropy when n > 64, and succeeds for every
\* 16 <= n <= 64; what is no entropy fails with InvalidEntropyArgument.
C6_EntropyBoundsAsStated ==
    last.op = "fromSeed" =>
        IF ~IsEntropy(last.arg) THEN last.err = "InvalidEntropyArgument"
        ELSE IF Len(EntropyBytes(last.arg)) < 16 THEN last.err = "NotEnoughEntropy"
        ELSE IF Len(EntropyBytes(last.arg)) > 64 THEN last.err = "TooMuchEntropy"
        ELSE last.err = "" /\ last.id \in Instances

\* C6, amended: fromSeed of n bytes fails with NotEnoughEntropy when
\* n < 16 and with TooMuchEntropy when n > 64; for 16 <= n <= 64 it builds
\* a key when the left half of the HMAC of the seed is a scalar k with
\* 0 < k < N, and otherwise throws the TypeError of the key's construction;
\* what is no entropy fails with InvalidEntropyArgument.
C6_EntropyBounds ==
    last.op = "fromSeed" =>
        IF ~IsEntropy(last.arg) THEN last.err = "InvalidEntropyArgument"
        ELSE IF Len(EntropyBytes(last.arg)) < 16 THEN last.err = "NotEnoughEntropy"
        ELSE IF Len(EntropyBytes(last.arg)) > 64 THEN last.err = "TooMuchEntropy"
        ELSE IF ScalarInRange(SeedScalar(EntropyBytes(last.arg)))
        THEN /\ last.err = "" /\ last.id \in Instances
             /\ keys[last.id].privateKey = SeedScalar(EntropyBytes(last.arg))
        ELSE last.err = "TypeError" /\ last.id = 0

\* fromSeed has built a key from a hexadecimal string of 64 bytes
C6_Witness ==
    /\ last.op = "fromSeed" /\ last.err = "" /\ last.id \in Instances
    /\ last.arg.k = "hex" /\ Len(EntropyBytes(last.arg)) = 64

(***************************************************************************)
(* C7                                                                      *)
(***************************************************************************)
\* the first check of the fixed order that fails, or "null"
FirstFailingCheck(data, network) ==
    IF data.k \notin { "text", "textbuffer" } THEN "InvalidArgument"
    ELSE
    LET raw == data.text.raw
        n == Len(raw)
    IN  IF data.text.t \notin { "b58", "empty" } THEN "InvalidB58Char"
        ELSE IF n < 4 \/ SubSeq(raw, n - 3, n) # Base58CheckChecksum(SubSeq(raw, 1, n - 4))
        THEN "InvalidB58Checksum"
        ELSE IF n - 4 # 78 THEN "InvalidLength"
        ELSE IF network = Undefined THEN "null"
        ELSE IF NetworkGet(network) = NoNetwork THEN "InvalidNetworkArgument"
        ELSE IF IntegerFromBuffer(SubSeq(raw, 1, 4)) # NetworkGet(network).xprivkey
        THEN "InvalidNetwork"
        ELSE "null"

\* C7: getSerializedError(data, network) returns the error of the first
\* check that fails in the order InvalidArgument, InvalidB58Char,
\* InvalidB58Checksum, InvalidLength, InvalidNetworkArgument,
\* InvalidNetwork, and null when none fails; isValidSerialized is true
\* exactly when it returns null.
C7_SerializedErrorOrder ==
    last.op = "getSerializedError" =>
        /\ last.err = FirstFailingCheck(last.arg, last.aux)
        /\ last.id = 1 <=> last.err = "null"

\* a livenet key has been checked against testnet
C7_Witness ==
    /\ last.op = "getSerializedError" /\ last.err = "InvalidNetwork" /\ last.id = 0
    /\ last.arg = TextVal(LivenetRoot) /\ NetworkGet(last.aux) = Testnet

(***************************************************************************)
(* C8                                                                      *)
(***************************************************************************)
\* a call new HDPrivateKey(arg) with an argument of the fixed ones
ConstructedFromArg == last.op = "new" /\ last.via = "arg"

IsTextOrBytes(v) == v.k \in { "text", "textbuffer" }

\* JSON.parse accepts the text
ParsesAsJson(v) == v.text.json.k # "none"

\* C8 as stated: a text or bytes that neither pass the validator nor parse
\* as JSON, and a present argument that is no text, bytes or object, fail
\* with UnrecognizedArgument, and no key is built.
C8_UnrecognizedAsStated ==
    /\ ConstructedFromArg /\ IsTextOrBytes(last.arg)
            /\ FirstFailingCheck(last.arg, Undefined) # "null"
            /\ ~ParsesAsJson(last.arg)
        => last.err = "UnrecognizedArgument" /\ last.id = 0
    /\ ConstructedFromArg /\ last.arg # Undefined
            /\ ~IsTextOrBytes(last.arg) /\ ~IsObject(last.arg)
        => last.err = "UnrecognizedArgument" /\ last.id = 0

\* C8, amended: a truthy text or bytes that neither pass the validator nor
\* parse to a truthy JSON value fail with the error getSerializedError
\* gives for them (InvalidB58Char, InvalidB58Checksum or InvalidLength); a
\* truthy argument that is no text, bytes or object fails with
\* UnrecognizedArgument; in both cases no key is built.
C8_ConstructorErrors ==
    /\ ConstructedFromArg /\ Truthy(last.arg) /\ IsTextOrBytes(last.arg)
            /\ FirstFailingCheck(last.arg, Undefined) # "null"
            /\ ~(ParsesAsJson(last.arg) /\ Truthy(last.arg.text.json))
        => /\ last.err = FirstFailingCheck(last.arg, Undefined)
           /\ last.err \in { "InvalidB58Char", "InvalidB58Checksum", "InvalidLength" }
           /\ last.id = 0 /\ keys = <<>>
    /\ ConstructedFromArg /\ Truthy(last.arg)
            /\ ~IsTextOrBytes(last.arg) /\ ~IsObject(last.arg)
        => last.err = "UnrecognizedArgument" /\ last.id = 0 /\ keys = <<>>

\* the constructor has refused a text of a character outside Base58
C8_Witness ==
    /\ ConstructedFromArg /\ last.arg = TextVal(JunkText)
    /\ last.err = "InvalidB58Char" /\ keys = <<>>

(***************************************************************************)
(* C10                                                                     *)
(***************************************************************************)
\* the scalar of the child of a key for a normalized index and flag
ChildScalar(parent, index, hardened) ==
    LET hash == Sha512Hmac(DerivationData(parent, index, hardened),
                           parent.buffers.chainCode)
    IN  (BNFromBuffer(SubSeq(hash, 1, 32)) + parent.privateKey) % CurveN

\* the scalar in a serialized text
TextScalar(text) ==
    BNFromBuffer(SubSeq(text.raw, PrivateKeyStart + 1, PrivateKeyEnd))

IndexOf(i, h) == IF Truthy(h) /\ i < Hardened THEN i + Hardened ELSE i
IsHardened(i, h) == i >= Hardened \/ Truthy(h)

\* H: the HMAC-SHA512 keyed by the parent's chain code, over 0x00, the
\* private key and the index when hardened, and over the compressed public
\* key and the index when not
HmacOf(p, index, hardened) ==
    Sha512Hmac(IF hardened
               THEN <<0>> \o BNToBuffer(p.privateKey, 32) \o IntegerAsBuffer(index)
               ELSE p.publicKey \o IntegerAsBuffer(index),
               p.buffers.chainCode)

\* the key has the fields the derivation of p by (index, hardened) gives
IsChildOf(child, p, index, hardened) ==
    LET H == HmacOf(p, index, hardened)
        scalar == (BNFromBuffer(SubSeq(H, 1, 32)) + p.privateKey) % CurveN
    IN  /\ child.network = p.network
        /\ child.depth = p.depth + 1
        /\ child.buffers.depth = << p.depth + 1 >>
        /\ child.buffers.parentFingerPrint = p.fingerPrint
        /\ child.buffers.childIndex = IntegerAsBuffer(index)
        /\ child.buffers.chainCode = SubSeq(H, 33, 64)
        /\ child.privateKey = scalar
        /\ child.buffers.privateKey = BNToBuffer(scalar, 32)

MasterNetwork(network) ==
    IF network = Undefined THEN Livenet ELSE NetworkGet(network)

\* the key is the master key of the seed on the network
IsMasterOf(key, bytes, net) ==
    LET H == Sha512Hmac(bytes, BitcoinSeed)
    IN  /\ key.depth = 0 /\ key.buffers.depth = << 0 >>
        /\ key.buffers.parentFingerPrint = << 0, 0, 0, 0 >>
        /\ key.buffers.childIndex = << 0, 0, 0, 0 >>
        /\ key.buffers.privateKey = SubSeq(H, 1, 32)
        /\ key.privateKey = BNFromBuffer(SubSeq(H, 1, 32))
        /\ key.buffers.chainCode = SubSeq(H, 33, 64)
        /\ key.network = net
        /\ key.buffers.version = IntegerAsBuffer(net.xprivkey)
        /\ key.xprivkey.raw = EncodedFields(key.buffers).raw

BadRootPaths ==
    { <<>>, << "1", "/", "1" >>, << "x", "/", "1" >>, << "/", "m" >>,
      << "m", "m", "/", "1" >>, << "1" >> }

\* paths with a segment after the root that is no decimal integer with an
\* optional mark: empty, "abc", "-1", "1abc", "1''", " 1"
BadSegmentPaths ==
    { << "m", "/" >>,
      << "m", "/", "a", "b", "c" >>,
      << "m", "/", "-", "1" >>,
      << "m", "/", "1", "a", "b", "c" >>,
      << "m", "/", "1", "'", "'" >>,
      << "m", "/", " ", "1" >>,
      << "m", "/", "1", "/", "/", "1" >> }

\* arguments that are neither a number nor a string
BadDeriveArgs ==
    { Undefined, Null, Bool(TRUE), Buf(<< 1 >>), Net("livenet") }

\* the first and the last part of C13: the root segment and the kind of the
\* argument
C13_RootAndKindChecked ==
    \A this \in Instances :
        /\ \A p \in BadRootPaths :
                LET call == Derive(State, this, Path(p), Undefined)
                IN  call.err = "InvalidPath" /\ call.keys = keys /\ call.cache = cache
        /\ \A v \in BadDeriveArgs, h \in Flags :
                LET call == Derive(State, this, v, h)
                IN  call.err = "InvalidDerivationArgument"
                        /\ call.keys = keys /\ call.cache = cache

\* C13: derive of a path whose first segment is no root alias fails with
\* InvalidPath, derive of a path with a later segment that is no
\* non-negative decimal integer with an optional hardening mark fails with
\* an error, and derive of an argument that is neither a number nor a
\* string fails with InvalidDerivationArgument; no key is returned.
C13_MalformedDeriveFails ==
    /\ C13_RootAndKindChecked
    /\ \A this \in Instances, p \in BadSegmentPaths :
            LET call == Derive(State, this, Path(p), Undefined)
            IN  call.err # "" /\ call.id = 0

\* the segment "1abc" alone: derive("m/1abc") fails
C13_TrailingCharactersFail ==
    \A this \in Instances :
        Derive(State, this, Path(<< "m", "/", "1", "a", "b", "c" >>), Undefined).err # ""

(***************************************************************************)
(* C14                                                                     *)
(***************************************************************************)
\* the bag an argument gives: the object, or the one its JSON text parses to
BagOf(arg) == IF arg.k = "object" THEN arg ELSE arg.text.json

\* the key of the bag with the values as native integers
NativeKey == NewHDPrivateKey(NativeBag, Zeros(MaxBytes))

\* C14 as stated: a bag, or a JSON text of a bag, with depth,
\* parentFingerPrint, childIndex or checksum as hexadecimal text is accepted
\* and gives the key (the xprivkey) of the bag with the same values as
\* native integers.
C14_HexNumbersAccepted ==
    ConstructedFromArg /\ (last.arg \in HexBags \/ last.arg \in { JsonOf(b) : b \in HexBags })
        => /\ last.err = "" /\ last.id \in Instances
           /\ keys[last.id].xprivkey = NativeKey.key.xprivkey

\* one of parentFingerPrint, childIndex and checksum is hexadecimal text
HasHexNumber(bag) ==
    \/ IsHexa(bag.obj.parentFingerPrint)
    \/ IsHexa(bag.obj.childIndex)
    \/ IsHexa(bag.obj.checksum)

\* C14, amended: a bag, or a JSON text of a bag, with parentFingerPrint,
\* childIndex or checksum as hexadecimal text is refused (the field is no
\* buffer) and no key is built; the bag with these fields as buffers of
\* their widths, and the JSON text of the bag of native integers, give the
\* key of the bag with the same values as native integers.
C14_NumbersOrBuffers ==
    /\ ConstructedFromArg /\ last.arg \in NumericArgs /\ HasHexNumber(BagOf(last.arg))
        => last.err = "AssertionError" /\ last.id = 0 /\ keys = <<>>
    /\ ConstructedFromArg
            /\ last.arg \in BufferBags \cup { NativeBagChecked, JsonOf(NativeBag) }
        => /\ last.err = "" /\ last.id \in Instances
           /\ keys[last.id] = NativeKey.key
           /\ keys[last.id].buffers.parentFingerPrint = BagParent
           /\ keys[last.id].buffers.childIndex = BagIndex

\* the constructor has refused a bag whose childIndex is hexadecimal text
C14_Witness ==
    /\ ConstructedFromArg /\ last.arg \in HexBags
    /\ IsHexa(last.arg.obj.childIndex) /\ ~IsHexa(last.arg.obj.parentFingerPrint)
    /\ last.err = "AssertionError" /\ keys = <<>>
    /\ NativeKey.err = ""

(***************************************************************************)
(* C15                                                                     *)
(***************************************************************************)
\* the four bytes a bag supplies as its checksum
SuppliedChecksum(bag) ==
    IF bag.obj.checksum.k = "buffer" THEN bag.obj.checksum.b
    ELSE IntegerAsBuffer(bag.obj.checksum.n)

ConstructedFromChecksumBag == ConstructedFromArg /\ last.arg \in ChecksumArgs

\* C15: a bag that supplies a checksum is built only if the four bytes
\* equal the Base58Check checksum of the payload of its other fields, and
\* fails with InvalidB58Checksum if they differ in a byte; a bag that
\* supplies none is built with the checksum of the payload.
C15_ChecksumVerified ==
    ConstructedFromChecksumBag =>
        IF last.arg.obj.checksum = Undefined
        THEN last.err = "" /\ keys[last.id].buffers.checksum = TrueChecksum
        ELSE IF SuppliedChecksum(last.arg) = TrueChecksum
        THEN last.err = "" /\ keys[last.id].buffers.checksum = TrueChecksum
        ELSE last.err = "InvalidB58Checksum" /\ last.id = 0

\* what holds of the checksum of a bag: none, or the integer 0, is computed
\* from the payload, and one that is supplied is compared as text, the
\* UTF-8 readings of the two buffers being equal or not
C15_ChecksumComparedAsText ==
    ConstructedFromChecksumBag =>
        IF ~Truthy(last.arg.obj.checksum)
        THEN last.err = "" /\ keys[last.id].buffers.checksum = TrueChecksum
        ELSE IF BufferToString(SuppliedChecksum(last.arg)) = BufferToString(TrueChecksum)
        THEN last.err = "" /\ keys[last.id].buffers.checksum = SuppliedChecksum(last.arg)
        ELSE last.err = "InvalidB58Checksum" /\ last.id = 0

(***************************************************************************)
(* C16                                                                     *)
(***************************************************************************)
\* a call has thrown
HasThrown == last.err \notin { "", "null" }

\* C16: every error kind is a subtype of InvalidArgument, NotEnoughEntropy
\* and TooMuchEntropy are subtypes of InvalidEntropyArgument,
\* InvalidArgument is a subtype of HDPrivateKey.Error, and every error a
\* call throws is an instance of HDPrivateKey.Error.
C16_ClosedHierarchy ==
    /\ \A kind \in ErrorKinds : InstanceOf(kind, "InvalidArgument")
    /\ InstanceOf("NotEnoughEntropy", "InvalidEntropyArgument")
    /\ InstanceOf("TooMuchEntropy", "InvalidEntropyArgument")
    /\ InstanceOf("InvalidArgument", "HDPrivateKey.Error")
    /\ HasThrown => InstanceOf(last.err, "HDPrivateKey.Error")

\* the hierarchy below InvalidArgument, which is a TypeError: the part of
\* C16 that holds, for the kinds and for the errors of the kinds thrown
C16_KindsAreInvalidArguments ==
    /\ \A kind \in ErrorKinds :
            InstanceOf(kind, "InvalidArgument") /\ InstanceOf(kind, "TypeError")
    /\ InstanceOf("NotEnoughEntropy", "InvalidEntropyArgument")
    /\ InstanceOf("TooMuchEntropy", "InvalidEntropyArgument")
    /\ HasThrown /\ last.err \in ErrorKinds => InstanceOf(last.err, "InvalidArgument")

\* the constructor alone: an error it throws is an HDPrivateKey.Error
C16_ThrownIsDomainError ==
    ConstructedFromArg /\ HasThrown => InstanceOf(last.err, "HDPrivateKey.Error")

(***************************************************************************)
(* C17                                                                     *)
(***************************************************************************)
\* the high bit of a stored childIndex
HighBit(buf) == IntegerFromBuffer(buf) % (2 * Hardened) >= Hardened

\* the numbers derive is called with: the indexes of the word, the one
\* below them and the one above them
NumericIndexes == (0 - 1)..(2 ^ IndexBits)

\* of the keys derive(i, h) returns for the numbers of a set, the high bit
\* of the childIndex is set exactly when the data of the hardened derivation
\* went into the HMAC
HighBitIsHardened(indexes) ==
    \A this \in Instances, i \in indexes, h \in StepFlags :
        LET call == Derive(State, this, Num(i), h)
            hardened == Truthy(NormalizedHardened(Num(i), h))
            child == call.keys[call.id]
        IN  call.err = "" =>
                /\ HighBit(child.buffers.childIndex) <=> hardened
                /\ child.buffers.chainCode
                        = SubSeq(HmacOf(keys[this], IntegerFromBuffer(child.buffers.childIndex),
                                        hardened), 33, 64)

\* C17: for every key derive(index, hardened) returns for a numeric index,
\* the stored childIndex has its high bit set if and only if the hardened
\* HMAC input was used to produce the key.
C17_HighBitIffHardened == HighBitIsHardened(NumericIndexes)

\* C17 for the indexes of the word, 0 <= index < 2 * Hardened
C17_HighBitIffHardenedInRange == HighBitIsHardened(0..(2 ^ IndexBits - 1))

(***************************************************************************)
(* C18                                                                     *)
(***************************************************************************)
\* segments in the plain decimal writing, with the mark and without it
CanonicalSegments ==
    { << "0" >>, << "1" >>, << "1", "'" >>, << "0", "'" >>,
      NumberToString(Num(Hardened + 1)), NumberToString(Num(Hardened + 1)) \o << "'" >> }

\* segments with leading zeros or a sign
PaddedSegments ==
    { << "0", "1" >>, << "+", "1" >>, << "0", "0" >>, << "0", "1", "'" >> }

HasMarker(segment) == segment[Len(segment)] = "'"

\* of the segments of a set: derive("m/" + segment) ends as
\* derive(index, marked) does, index being the integer the segment writes
\* and marked telling whether it ends with the mark, and the child of a
\* segment without the mark and below Hardened has no hardened childIndex
MarkerDecides(segments) ==
    \A this \in Instances, segment \in segments :
        LET call == Derive(State, this, Path(<< "m", "/" >> \o segment), Undefined)
            index == ParseInt(segment)
            byNumber == Derive(State, this, index, Bool(HasMarker(segment)))
        IN  /\ call.err = byNumber.err
            /\ call.err = "" =>
                /\ call.keys[call.id] = byNumber.keys[byNumber.id]
                /\ ~HasMarker(segment) /\ index.n < Hardened
                        => ~HighBit(call.keys[call.id].buffers.childIndex)

\* C18: a segment of a path is derived hardened if and only if it ends
\* with the mark ', and non-hardened with the integer it writes otherwise;
\* a segment without the mark, leading zeros or a sign included ("01"), is
\* never derived hardened.
C18_MarkerDecides == MarkerDecides(CanonicalSegments \cup PaddedSegments)

\* C18 for the segments in the plain decimal writing
C18_MarkerDecidesCanonical == MarkerDecides(CanonicalSegments)

(***************************************************************************)
(* C19                                                                     *)
(***************************************************************************)
\* every key has a depth of one byte, and the children derive returns of
\* the parents of a set are one step deeper than their parent
DepthCounts(parents) ==
    /\ \A k \in Instances :
            /\ keys[k].depth \in 0..255
            /\ keys[k].buffers.depth = << keys[k].depth >>
    /\ \A this \in parents, i \in IndexArgs, h \in Flags :
            LET call == Derive(State, this, Num(i), h)
            IN  call.err = "" => call.keys[call.id].depth = keys[this].depth + 1

\* C19: every key has a depth in 0..255, the number of derivation steps
\* that led to it, stored in one byte with no truncation or wrap-around;
\* deriving a child of a parent at depth 255 gives no key whose stored
\* depth differs from the parent's depth + 1.
C19_DepthCounts == DepthCounts(Instances)

\* C19 for the parents below depth 255
C19_DepthCountsBelowLimit ==
    DepthCounts({ k \in Instances : keys[k].depth < 255 })

(***************************************************************************)
(* C20                                                                     *)
(***************************************************************************)
\* the calls derive(arg, hardened) tried on every key
FrameCalls ==
    { [arg |-> Num(i), hardened |-> h] : i \in NumericIndexes, h \in StepFlags }
        \cup { [arg |-> Path(p), hardened |-> Undefined] :
                    p \in Paths \cup RootElementAlias \cup BadSegmentPaths \cup BadRootPaths }
        \cup { [arg |-> v, hardened |-> Undefined] : v \in BadDeriveArgs }

\* C20: a call of derive, by index or by path, answered from the cache or
\* not, returning or throwing, leaves every key as it was (network, depth,
\* parentFingerPrint, childIndex, chainCode, scalar, fingerprint and
\* xprivkey); a derivation by index or by a path of at least one step
\* returns an instance other than the parent, and a path that is a root
\* alias returns the parent itself.
C20_ParentUnchanged ==
    \A this \in Instances, c \in FrameCalls :
        LET call == Derive(State, this, c.arg, c.hardened)
        IN  /\ Len(call.keys) >= Len(keys)
            /\ \A k \in Instances : call.keys[k] = keys[k]
            /\ call.err # "" => call.id = 0
            /\ call.err = "" =>
                IF c.arg.k = "path" /\ c.arg.chars \in RootElementAlias
                THEN call.id = this /\ call.keys = keys /\ call.cache = cache
                ELSE call.id # this /\ call.id \in 1..Len(call.keys)

\* derive has returned a new instance by a path of MaxSteps steps, and the
\* parent is the key its xprivkey writes
C20_Witness ==
    /\ last.op = "derive" /\ last.via = "path" /\ last.err = ""
    /\ last.id # last.this /\ last.id = Len(keys)
    /\ keys[last.id].depth = keys[last.this].depth + MaxSteps
    /\ keys[last.this].xprivkey.raw = EncodedFields(keys[last.this].buffers).raw
    /\ \E e \in cache : e.xkey = keys[last.this].xprivkey

(***************************************************************************)
(* C21                                                                     *)
(***************************************************************************)
\* the call has returned the master key of 64 bytes Random.getRandomBuffer
\* may give
ReturnedRandomKey ==
    /\ last.err = "" /\ last.id \in Instances
    /\ \E random \in RandomBuffers : IsMasterOf(keys[last.id], random, Livenet)

\* the arguments that are present and falsy: null, NaN, 0, false, ''
FalsyArgs == { arg \in ConstructorArgs : arg # Undefined /\ ~Truthy(arg) }

\* C21: the constructor generates a key from 64 random bytes only when no
\* argument is given; an argument that is present, falsy values such as
\* '', 0, null or false included, is decoded into the key it describes or
\* refused with an error, and never replaced by a random key.
C21_RandomOnlyWithoutArgument ==
    ConstructedFromArg =>
        IF last.arg = Undefined
        THEN ReturnedRandomKey \/ last.err = "TypeError"
        ELSE ~ReturnedRandomKey

\* C21 for the arguments that are truthy, and for no argument
C21_TruthyNeverRandom ==
    ConstructedFromArg /\ (last.arg = Undefined \/ Truthy(last.arg)) =>
        IF last.arg = Undefined
        THEN ReturnedRandomKey \/ last.err = "TypeError"
        ELSE ~ReturnedRandomKey

\* what the constructor does with a present falsy argument: the random key
C21_FalsyIsRandom ==
    ConstructedFromArg /\ last.arg \in FalsyArgs =>
        ReturnedRandomKey \/ last.err = "TypeError"

(***************************************************************************)
(* C22                                                                     *)
(***************************************************************************)
\* every entry of a store maps the xprivkey of a key, an index and a flag
\* to the child of that key for that index
EntriesAreChildren(ks, c) ==
    \A e \in c :
        /\ e.derived \in 1..Len(ks)
        /\ \E k \in 1..Len(ks) : ks[k].xprivkey = e.xkey
        /\ \A k \in 1..Len(ks) :
                ks[k].xprivkey = e.xkey =>
                    IsChildOf(ks[e.derived], ks[k], e.number.n, Truthy(e.hardened))

\* the segments of a path joined again
RECURSIVE JoinPath(_)
JoinPath(steps) ==
    IF Len(steps) = 1 THEN steps[1]
    ELSE JoinPath(SubSeq(steps, 1, Len(steps) - 1)) \o << "/" >> \o steps[Len(steps)]

\* a path that starts with a root alias and has a step
IsStepPath(arg) ==
    /\ arg.k = "path" /\ arg.chars \notin RootElementAlias
    /\ Head(Split(arg.chars)) \in RootElementAlias

\* the calls by an index of the word or by a path of such indexes
WordCalls ==
    { [arg |-> Num(i), hardened |-> h] : i \in 0..(2 ^ IndexBits - 1), h \in StepFlags }
        \cup { [arg |-> Path(p), hardened |-> Undefined] : p \in Paths \cup RootElementAlias }

\* C22 as stated: a derive call that fails leaves the store as it was, and
\* every entry maps to the key derived from its parent with its index.
C22_FailureLeavesStore ==
    /\ EntriesAreChildren(keys, cache)
    /\ \A this \in Instances, c \in FrameCalls :
            LET call == Derive(State, this, c.arg, c.hardened)
            IN  call.err # "" => call.cache = cache

\* C22, amended: a derive call that fails by its argument
\* (InvalidDerivationArgument, InvalidPath) or in a derivation by index
\* leaves the store as it was; a path that fails in one of its steps leaves
\* the store with the entries of the steps before it, as the derivation of
\* the path up to that step leaves it; no call removes or changes an entry,
\* and every entry made with indexes of the word maps to the key derived
\* from its parent with its index.
C22_StoreHoldsChildren ==
    /\ EntriesAreChildren(keys, cache)
    /\ \A this \in Instances, c \in FrameCalls :
            LET call == Derive(State, this, c.arg, c.hardened)
                steps == Split(c.arg.chars)
            IN  /\ cache \subseteq call.cache
                /\ c \in WordCalls => EntriesAreChildren(call.keys, call.cache)
                /\ call.err # "" /\ ~IsStepPath(c.arg) =>
                        call.cache = cache /\ call.keys = keys
                /\ call.err # "" /\ IsStepPath(c.arg) =>
                        \E j \in 1..(Len(steps) - 1) :
                            LET before == Derive(State, this,
                                                 Path(JoinPath(SubSeq(steps, 1, j))), Undefined)
                                upTo == Derive(State, this,
                                               Path(JoinPath(SubSeq(steps, 1, j + 1))), Undefined)
                            IN  /\ before.err = "" /\ upTo.err = call.err
                                /\ call.cache = before.cache /\ call.keys = before.keys

\* a path has failed in its second step from the first key, and the store
\* holds the entry of the first step alone
C22_Witness ==
    /\ last.op = "derive" /\ last.via = "path" /\ last.err = "TypeError"
    /\ last.this = 1 /\ Len(keys) = 2
    /\ \A e \in cache : e.xkey = keys[1].xprivkey /\ e.derived = 2
    /\ Cardinality(cache) = 1
    /\ \E p \in Paths :
            LET call == Derive(State, 1, Path(p), Undefined)
            IN  call.err = "TypeError" /\ call.cache = cache /\ call.keys = keys

=============================================================================
